---- MODULE Spec2Model ----
(***************************************************************************)
(* Model of the configuration repository (src/src/config.rs) and of the    *)
(* example program that loads config.txt into it                           *)
(* (src/examples/config_manager.rs).                                       *)
(*                                                                         *)
(* A text (Rust String / &str) is a sequence of one-character strings; a   *)
(* HashMap<String, String> is a function from texts to texts; an           *)
(* Option<T> is a record with a `some` flag.                               *)
(***************************************************************************)
EXTENDS Integers, Sequences, FiniteSets, TLC

VARIABLES
    items,      \* Repository.items, the HashMap owned by the store
    built,      \* TRUE once Repository::new has run
    initial,    \* the HashMap that was handed to Repository::new
    log,        \* the calls made on the store so far, oldest first
    ret,        \* what the most recent call returned
    pc,         \* position of the caller / of main
    file,       \* the lines of config.txt
    pos,        \* number of lines main has consumed
    loaded,     \* main's local `items` HashMap, filled by the loop
    printed,    \* keys main's print loop has already visited
    out         \* lines written to stdout

vars == <<items, built, initial, log, ret, pc, file, pos, loaded, printed, out>>

(***************************************************************************)
(* Bounds.                                                                 *)
(***************************************************************************)
MaxCalls == 3
MaxLines == 2

(***************************************************************************)
(* Texts.                                                                  *)
(***************************************************************************)
Eq == "="
sEmpty == << >>
sFoo == <<"f", "o", "o">>
sBar == <<"b", "a", "r">>
sBaz == <<"b", "a", "z">>
sQux == <<"q", "u", "x">>
sK == <<"k">>
sV == <<"v">>
sW == <<"w">>
sHeader == <<"A", "l", "l", " ", "c", "o", "n", "f", "i", "g", " ", "i", "t", "e", "m", "s", ":">>

\* keys and values the caller of the store draws its arguments from
Keys == {sEmpty, sFoo}
Values == {sEmpty, sBar, sBaz}

\* every HashMap over Keys and Values
Mappings == UNION {[D -> Values] : D \in SUBSET Keys}

EmptyMap == [k \in {} |-> sEmpty]

\* Option<T>
None == [some |-> FALSE]
Some(v) == [some |-> TRUE, val |-> v]
Unit == [unit |-> TRUE]

(***************************************************************************)
(* std::collections::HashMap primitives used by the code.                  *)
(***************************************************************************)
contains_key(m, k) == k \in DOMAIN m

map_get(m, k) == IF k \in DOMAIN m THEN Some(m[k]) ELSE None

insert(m, k, v) == [x \in DOMAIN m \cup {k} |-> IF x = k THEN v ELSE m[x]]

(***************************************************************************)
(* Repository (src/src/config.rs).                                         *)
(***************************************************************************)
new(m) == m

hasEmptyIsAbsent(its, key) == key \in DOMAIN its /\ its[key] # sEmpty

has(its, key) == contains_key(its, key)

getEmptyIsAbsent(its, key) ==
    IF key \in DOMAIN its /\ its[key] # sEmpty THEN Some(its[key]) ELSE None

get(its, key) == map_get(its, key)

\* set that keeps the value of a key that is already present
setKeepExisting(its, key, value) ==
    IF key \in DOMAIN its THEN its ELSE insert(its, key, value)

\* set that appends to the value of a key that is already present
setMerge(its, key, value) ==
    IF key \in DOMAIN its THEN insert(its, key, its[key] \o value)
    ELSE insert(its, key, value)

\* set that refuses the empty key
setRejectEmptyKey(its, key, value) ==
    IF key = sEmpty THEN its ELSE insert(its, key, value)

\* set that rebuilds the map from the one entry it was given
setReplaceAll(its, key, value) == insert(EmptyMap, key, value)

set(its, key, value) == insert(its, key, value)

all(its) == its

Call(op, key, value) == [op |-> op, key |-> key, value |-> value]

(***************************************************************************)
(* A caller of the store: Repository::new on any mapping, then any         *)
(* sequence of has / get / set / all.                                      *)
(***************************************************************************)
Init ==
    \E m \in Mappings :
        /\ initial = m
        /\ items = new(m)
        /\ built = TRUE
        /\ log = << >>
        /\ ret = Unit
        /\ pc = "ready"
        /\ file = << >>
        /\ pos = 0
        /\ loaded = EmptyMap
        /\ printed = {}
        /\ out = << >>

HasCall(key) ==
    /\ pc = "ready"
    /\ Len(log) < MaxCalls
    /\ ret' = has(items, key)
    /\ log' = Append(log, Call("has", key, sEmpty))
    /\ UNCHANGED <<items, built, initial, pc, file, pos, loaded, printed, out>>

\* a get that takes the entry out of the map
GetCallTake(key) ==
    /\ pc = "ready"
    /\ Len(log) < MaxCalls
    /\ ret' = get(items, key)
    /\ items' = [x \in DOMAIN items \ {key} |-> items[x]]
    /\ log' = Append(log, Call("get", key, sEmpty))
    /\ UNCHANGED <<built, initial, pc, file, pos, loaded, printed, out>>

GetCall(key) ==
    /\ pc = "ready"
    /\ Len(log) < MaxCalls
    /\ ret' = get(items, key)
    /\ log' = Append(log, Call("get", key, sEmpty))
    /\ UNCHANGED <<items, built, initial, pc, file, pos, loaded, printed, out>>

SetCall(key, value) ==
    /\ pc = "ready"
    /\ Len(log) < MaxCalls
    /\ items' = set(items, key, value)
    /\ ret' = Unit
    /\ log' = Append(log, Call("set", key, value))
    /\ UNCHANGED <<built, initial, pc, file, pos, loaded, printed, out>>

AllCall ==
    /\ pc = "ready"
    /\ Len(log) < MaxCalls
    /\ ret' = all(items)
    /\ log' = Append(log, Call("all", sEmpty, sEmpty))
    /\ UNCHANGED <<items, built, initial, pc, file, pos, loaded, printed, out>>

Next ==
    \/ \E key \in Keys : HasCall(key)
    \/ \E key \in Keys : GetCall(key)
    \/ \E key \in Keys, value \in Values : SetCall(key, value)
    \/ AllCall

Spec == Init /\ [][Next]_vars

(***************************************************************************)
(* The example program (src/examples/config_manager.rs).                   *)
(***************************************************************************)
lKV == sK \o <<Eq>> \o sV
lKW == sK \o <<Eq>> \o sW
lKNoValue == sK \o <<Eq>>
lNoKey == <<Eq>> \o sV
lFooBar == sFoo \o <<Eq>> \o sBar
lBarV == sBar \o <<Eq>> \o sV
lTwoEq == sK \o <<Eq>> \o sV \o <<Eq>> \o sW
lBlank == sEmpty
lNoEq == sK

\* the lines a config.txt is made of
Lines == {lKV, lKW, lKNoValue, lNoKey, lFooBar, lBarV, lTwoEq, lBlank, lNoEq}

Files == UNION {[1..n -> Lines] : n \in 0..MaxLines}

\* str::split("=") collected into a Vec: scan left to right, cutting at
\* every separator; `cur` is the segment being read, `acc` the segments cut
RECURSIVE splitFrom(_, _, _, _)
splitFrom(s, i, cur, acc) ==
    IF i > Len(s) THEN Append(acc, cur)
    ELSE IF s[i] = Eq THEN splitFrom(s, i + 1, << >>, Append(acc, cur))
    ELSE splitFrom(s, i + 1, Append(cur, s[i]), acc)

split(s) == splitFrom(s, 1, << >>, << >>)

\* format!("{}={}", key, value)
format(key, value) == key \o <<Eq>> \o value

MainInit ==
    \E f \in Files :
        /\ file = f
        /\ pc = "open"
        /\ pos = 0
        /\ loaded = EmptyMap
        /\ items = EmptyMap
        /\ initial = EmptyMap
        /\ built = FALSE
        /\ log = << >>
        /\ ret = Unit
        /\ printed = {}
        /\ out = << >>

\* File::open("config.txt")? succeeds
OpenFile ==
    /\ pc = "open"
    /\ pc' = "loop"
    /\ UNCHANGED <<items, built, initial, log, ret, file, pos, loaded, printed, out>>

\* File::open("config.txt")? returns the error from main
OpenFail ==
    /\ pc = "open"
    /\ pc' = "io_error"
    /\ UNCHANGED <<items, built, initial, log, ret, file, pos, loaded, printed, out>>

\* a loop body that passes over a line with fewer than two segments
ReadLineSkip ==
    /\ pc = "loop"
    /\ pos < Len(file)
    /\ LET parts == split(file[pos + 1])
       IN  /\ loaded' = IF Len(parts) >= 2
                        THEN insert(loaded, parts[1], parts[2])
                        ELSE loaded
           /\ pos' = pos + 1
           /\ pc' = pc
    /\ UNCHANGED <<items, built, initial, log, ret, file, printed, out>>

\* a loop body that keeps the first value seen for a key
ReadLineKeepFirst ==
    /\ pc = "loop"
    /\ pos < Len(file)
    /\ LET parts == split(file[pos + 1])
       IN  IF Len(parts) >= 2
           THEN /\ loaded' = IF parts[1] \in DOMAIN loaded
                             THEN loaded
                             ELSE insert(loaded, parts[1], parts[2])
                /\ pos' = pos + 1
                /\ pc' = pc
           ELSE /\ pc' = "panic"
                /\ UNCHANGED <<loaded, pos>>
    /\ UNCHANGED <<items, built, initial, log, ret, file, printed, out>>

\* one iteration of the loop on a line that was read: parts[0] and parts[1]
\* of the Vec (1-based here) are inserted; indexing a Vec of one segment
\* panics
ReadLine ==
    /\ pc = "loop"
    /\ pos < Len(file)
    /\ LET parts == split(file[pos + 1])
       IN  IF Len(parts) >= 2
           THEN /\ loaded' = insert(loaded, parts[1], parts[2])
                /\ pos' = pos + 1
                /\ pc' = pc
           ELSE /\ pc' = "panic"
                /\ UNCHANGED <<loaded, pos>>
    /\ UNCHANGED <<items, built, initial, log, ret, file, printed, out>>

\* `line?` on a line whose read failed
ReadError ==
    /\ pc = "loop"
    /\ pos < Len(file)
    /\ pc' = "io_error"
    /\ UNCHANGED <<items, built, initial, log, ret, file, pos, loaded, printed, out>>

\* reader.lines() is exhausted: Repository::new(items)
Build ==
    /\ pc = "loop"
    /\ pos = Len(file)
    /\ items' = new(loaded)
    /\ initial' = loaded
    /\ built' = TRUE
    /\ pc' = "set_foo"
    /\ UNCHANGED <<log, ret, file, pos, loaded, printed, out>>

\* config.set("foo", "baz")
SetFoo ==
    /\ pc = "set_foo"
    /\ items' = set(items, sFoo, sBaz)
    /\ ret' = Unit
    /\ log' = Append(log, Call("set", sFoo, sBaz))
    /\ pc' = "set_bar"
    /\ UNCHANGED <<built, initial, file, pos, loaded, printed, out>>

\* config.set("bar", "qux")
SetBar ==
    /\ pc = "set_bar"
    /\ items' = set(items, sBar, sQux)
    /\ ret' = Unit
    /\ log' = Append(log, Call("set", sBar, sQux))
    /\ pc' = "header"
    /\ UNCHANGED <<built, initial, file, pos, loaded, printed, out>>

\* println!("All config items:")
PrintHeader ==
    /\ pc = "header"
    /\ out' = Append(out, sHeader)
    /\ pc' = "iter"
    /\ UNCHANGED <<items, built, initial, log, ret, file, pos, loaded, printed>>

\* one iteration of `for (key, value) in config.all()`; a HashMap yields
\* its entries once each, in an order the caller cannot rely on
PrintItem ==
    /\ pc = "iter"
    /\ \E key \in DOMAIN all(items) \ printed :
        /\ out' = Append(out, format(key, all(items)[key]))
        /\ printed' = printed \cup {key}
    /\ UNCHANGED <<items, built, initial, log, ret, pc, file, pos, loaded>>

\* the iterator is exhausted: Ok(())
Return ==
    /\ pc = "iter"
    /\ printed = DOMAIN all(items)
    /\ pc' = "done"
    /\ UNCHANGED <<items, built, initial, log, ret, file, pos, loaded, printed, out>>

MainNext ==
    \/ OpenFile
    \/ OpenFail
    \/ ReadLine
    \/ ReadError
    \/ Build
    \/ SetFoo
    \/ SetBar
    \/ PrintHeader
    \/ PrintItem
    \/ Return

MainSpec == MainInit /\ [][MainNext]_vars

(***************************************************************************)
(* Vocabulary of the properties.                                           *)
(***************************************************************************)
Range(q) == {q[i] : i \in 1..Len(q)}

SetIdx(k) == {i \in 1..Len(log) : log[i].op = "set" /\ log[i].key = k}

SetKeys == {log[i].key : i \in {j \in 1..Len(log) : log[j].op = "set"}}

LastSetIdx(k) == CHOOSE i \in SetIdx(k) : \A j \in SetIdx(k) : j <= i

\* the initial mapping overridden by the most recent set on each key
Overridden ==
    [k \in DOMAIN initial \cup SetKeys |->
        IF SetIdx(k) # {} THEN log[LastSetIdx(k)].value ELSE initial[k]]

NoSetYet == SetKeys = {}

LastCall == log[Len(log)]

EqIdx(line) == {i \in 1..Len(line) : line[i] = Eq}

HasEq(line) == EqIdx(line) # {}

FirstEq(line) == CHOOSE i \in EqIdx(line) : \A j \in EqIdx(line) : i <= j

BeforeFirstEq(line) == SubSeq(line, 1, FirstEq(line) - 1)

AfterFirstEq(line) == SubSeq(line, FirstEq(line) + 1, Len(line))

WellFormed(line) == Cardinality(EqIdx(line)) = 1

\* line i is the last line of the file that gives its key
LastForKey(i) ==
    \A j \in (i + 1)..Len(file) :
        BeforeFirstEq(file[j]) # BeforeFirstEq(file[i])

(***************************************************************************)
(* C1: after any sequence of set calls on a store built from a mapping M,  *)
(* all() is M overridden, key by key, by the most recent set on that key:  *)
(* overwrites and new keys are visible, and entries of M whose key was     *)
(* never set are kept unchanged.                                           *)
(***************************************************************************)
C1_AllIsInitialOverridden == built => all(items) = Overridden

C1_Witness ==
    /\ pc = "ready"
    /\ \E k1 \in DOMAIN initial, k2 \in DOMAIN initial :
        /\ k1 # k2
        /\ Cardinality(SetIdx(k1)) >= 2
        /\ SetIdx(k2) = {}
        /\ all(items)[k1] # initial[k1]
        /\ all(items)[k1] # log[CHOOSE i \in SetIdx(k1) : i # LastSetIdx(k1)].value
        /\ all(items)[k2] = initial[k2]

(***************************************************************************)
(* C2: set(k, v1) directly followed by set(k, v2) leaves get(k) = v2 and   *)
(* has(k) = true, whatever the store held before.                          *)
(***************************************************************************)
C2_SecondSetWins ==
    (/\ Len(log) >= 2
     /\ log[Len(log) - 1].op = "set"
     /\ LastCall.op = "set"
     /\ log[Len(log) - 1].key = LastCall.key)
    => /\ get(items, LastCall.key) = Some(LastCall.value)
       /\ has(items, LastCall.key) = TRUE

C2_Witness ==
    /\ Len(log) = 3
    /\ log[1].op = "set" /\ log[2].op = "set" /\ log[3].op = "get"
    /\ log[1].key = log[2].key /\ log[3].key = log[2].key
    /\ log[2].key \in DOMAIN initial
    /\ log[1].value # log[2].value
    /\ initial[log[2].key] # log[2].value
    /\ ret = Some(log[2].value)

(***************************************************************************)
(* C3: on a store just built from M, get(k) returns the value M gives k    *)
(* when k is a key of M, and None otherwise.                               *)
(***************************************************************************)
C3_GetAfterNew ==
    (log # << >> /\ NoSetYet /\ LastCall.op = "get")
    => ret = IF LastCall.key \in DOMAIN initial
             THEN Some(initial[LastCall.key])
             ELSE None

C3_Witness ==
    /\ Len(log) = 2
    /\ log[1].op = "get" /\ log[2].op = "get"
    /\ log[1].key \in DOMAIN initial
    /\ initial[log[1].key] = sEmpty
    /\ log[2].key \notin DOMAIN initial
    /\ ret = None

(***************************************************************************)
(* C4: on a store just built from M, the empty M included, has(k) is true  *)
(* exactly when k is a key of M.                                           *)
(***************************************************************************)
C4_HasAfterNew ==
    (log # << >> /\ NoSetYet /\ LastCall.op = "has")
    => ret = (LastCall.key \in DOMAIN initial)

C4_Witness ==
    /\ Len(log) = 1
    /\ LastCall.op = "has"
    /\ LastCall.key \in DOMAIN initial
    /\ initial[LastCall.key] = sEmpty
    /\ ret = TRUE

(***************************************************************************)
(* C5: set is idempotent: a set(k, v) made right after the same set(k, v)  *)
(* leaves the mapping exactly as the first one left it.                    *)
(***************************************************************************)
C5_SetIdempotent ==
    [][(/\ log # << >>
        /\ LastCall.op = "set"
        /\ log' = Append(log, LastCall))
       => items' = items]_vars

C5_Witness ==
    /\ Len(log) = 2
    /\ log[1].op = "set"
    /\ log[2] = log[1]
    /\ log[1].key \in DOMAIN initial
    /\ log[1].value # sEmpty
    /\ initial[log[1].key] # log[1].value
    /\ items[log[1].key] = log[1].value

(***************************************************************************)
(* C6: has, get and all leave the stored mapping unchanged; only set       *)
(* changes the content of the store.                                       *)
(***************************************************************************)
C6_ReadsHaveNoEffect ==
    [][(/\ Len(log') = Len(log) + 1
        /\ log'[Len(log')].op \in {"has", "get", "all"})
       => items' = items]_vars

C6_Witness ==
    /\ Len(log) = 3
    /\ log[1].op = "get" /\ log[1].key \in DOMAIN initial
    /\ log[2].op = "has" /\ log[2].key \notin DOMAIN initial
    /\ log[3].op = "all"
    /\ initial # EmptyMap
    /\ ret = initial
    /\ items = initial

(***************************************************************************)
(* C7 as stated: in every reachable state of the store every key of items  *)
(* is a non-empty text.                                                    *)
(***************************************************************************)
C7_KeysNonEmpty == \A k \in DOMAIN items : k # sEmpty

(***************************************************************************)
(* C7 amended: the keys of items are exactly the keys the caller supplied, *)
(* in the initial mapping or in a set call; the empty text is accepted as  *)
(* a key by both, and as a value.                                          *)
(***************************************************************************)
C7_KeysAreThoseSupplied ==
    built => DOMAIN items = DOMAIN initial \cup SetKeys

C7_Witness ==
    /\ pc = "ready"
    /\ sEmpty \notin DOMAIN initial
    /\ sEmpty \in SetKeys
    /\ sEmpty \in DOMAIN items
    /\ items[sEmpty] = sEmpty

(***************************************************************************)
(* C8: a line with at least one '=' is split at the first '=' only: the    *)
(* key inserted is the text before it and the value inserted is all of the *)
(* rest of the line, further '=' included.                                 *)
(***************************************************************************)
C8_SplitAtFirstEqOnly ==
    (pos >= 1 /\ HasEq(file[pos]))
    => /\ BeforeFirstEq(file[pos]) \in DOMAIN loaded
       /\ loaded[BeforeFirstEq(file[pos])] = AfterFirstEq(file[pos])

(***************************************************************************)
(* C9: a line without '=' (a blank line included) is neither skipped nor   *)
(* reported: the program panics at that line, before any store is built    *)
(* and before anything is printed, also when earlier lines were fine.      *)
(***************************************************************************)
C9_NoEqLinePanics ==
    /\ \A i \in 1..pos : HasEq(file[i])
    /\ pc = "panic" => (/\ pos < Len(file)
                        /\ ~HasEq(file[pos + 1])
                        /\ ~built
                        /\ log = << >>
                        /\ out = << >>)
    /\ (built \/ out # << >>) => \A i \in 1..Len(file) : HasEq(file[i])

C9_Witness ==
    /\ pc = "panic"
    /\ pos = 1
    /\ WellFormed(file[1])
    /\ file[2] = lBlank
    /\ loaded # EmptyMap
    /\ ~built
    /\ out = << >>

(***************************************************************************)
(* C10: the overlays set("foo","baz") and set("bar","qux") run only after  *)
(* the whole file is loaded, so for a file of well-formed lines the output *)
(* has foo=baz and bar=qux whatever the file says of foo and bar, and has  *)
(* every other key of the file with the value of its last line.            *)
(***************************************************************************)
C10_OverlaysAfterLoad ==
    /\ log # << >> => (built /\ pos = Len(file) /\ initial = loaded)
    /\ (pc = "done" /\ \A i \in 1..Len(file) : WellFormed(file[i]))
       => /\ out[1] = sHeader
          /\ format(sFoo, sBaz) \in Range(out)
          /\ format(sBar, sQux) \in Range(out)
          /\ \A i \in 1..Len(file) :
                (BeforeFirstEq(file[i]) \notin {sFoo, sBar} /\ LastForKey(i))
                => format(BeforeFirstEq(file[i]), AfterFirstEq(file[i]))
                       \in Range(out)
          /\ Len(out) = 1 + Cardinality({sFoo, sBar} \cup
                            {BeforeFirstEq(file[i]) : i \in 1..Len(file)})

C10_Witness ==
    /\ pc = "done"
    /\ file = <<lKV, lFooBar>>
    /\ out = <<sHeader, format(sBar, sQux), format(sK, sV), format(sFoo, sBaz)>>

====
